---- MODULE Spec2Model ----
(***************************************************************************)
(* Recording sessions of backend/app/services/audio_capture.py.            *)
(*                                                                         *)
(* Request threads call start_recording / stop_recording on the module     *)
(* level table _recordings; every started primary stream has a driver      *)
(* callback (_mic_cb, _sys_cb) and the soundcard fallback has its own      *)
(* thread (_sc_loop).  Each action below is one step of one of these       *)
(* threads; a step is the stretch of code between two accesses to state    *)
(* another thread can see.                                                 *)
(***************************************************************************)
EXTENDS Integers, Sequences, FiniteSets, TLC

\* ---------------------------------------------------------------- bounds
MaxCalls == 3
MaxFrames == 1
MaxBlocks == 2

Threads == {1, 2}
Keys == {"m1"}
Tracks == {"mic", "sys"}

\* frames per delivered block, and the rate every track is written at
DEFAULT_BLOCKSIZE == 4096
target_rate == 48000

\* default sample rates a device can have: the target rate and another one
DeviceRates == {44100, 48000}

VARIABLES
    sd,          \* the sounddevice import succeeded (module level `sd`)
    sc,          \* the soundcard import succeeded (module level `sc`)
    recordings,  \* _recordings: key -> index of its bundle, 0 = key absent
    bundles,     \* every _StreamBundle created so far, with its streams
    calls,       \* per request thread: the call it is executing
    ncalls,      \* number of calls begun
    rate,        \* default sample rate of the mic and of the output device
    files,       \* key -> track -> the blocks in <audio_dir>/<key>/<track>.wav
    merger,      \* a call of _merge_and_filter: the dicts as given and as they
                 \* are now (heap), the lists mic and sys, the list returned
                 \* (out) with its dicts at the return (ret); out2, ret2:
                 \* the same for the merge of the result with the empty list
    listing,     \* a call of list_devices: what the audio library reports,
                 \* and the answer
    jobs         \* _jobs[meeting_id] with the calls of start_transcription_job
                 \* and the worker threads they started

vars ==
    <<sd, sc, recordings, bundles, calls, ncalls, rate, files, merger, listing,
      jobs>>

\* ------------------------------------------------------------ the bundle
\* _StreamBundle plus the objects it refers to.  mic_stream, sys_stream,
\* sys_thread and sys_stop_event are the bundle's fields (TRUE = not None);
\* micDev / sysDev are the PortAudio streams themselves, thr is the
\* position of _sc_loop and flag the state of the threading.Event.
\* mic_wav / sys_wav: "none" = field is None, else the Wave_write's state.
\* primFailed, startRet, popped, lateMic, lateSys record history only.
\* mic_blocks / sys_blocks: the blocks delivered to the track so far, each
\* with what became of it; mic_log / sys_log: the delivery numbers of the
\* blocks appended through the writer, in the order of the appends; held:
\* the delivery number of the block _sc_loop has in hand (0 = none);
\* monitor: the loopback microphone _sc_loop has found ("name": by the
\* output device's name, "default": by the default speaker, "none": by
\* neither).  The block-level producers fill them.
_StreamBundle(k) ==
    [key |-> k,
     mic_stream |-> FALSE, sys_stream |-> FALSE,
     mic_wav |-> "none", sys_wav |-> "none",
     mic_frames |-> 0, sys_frames |-> 0,
     sys_thread |-> FALSE, sys_stop_event |-> FALSE,
     sys_backend |-> "none",
     micDev |-> "none", sysDev |-> "none",
     thr |-> "none", flag |-> FALSE,
     primFailed |-> FALSE, startRet |-> "running", popped |-> FALSE,
     lateMic |-> FALSE, lateSys |-> FALSE,
     mic_blocks |-> <<>>, sys_blocks |-> <<>>,
     mic_log |-> <<>>, sys_log |-> <<>>, held |-> 0, monitor |-> "unresolved"]

NoResult ==
    [kind |-> "none", mic_path |-> FALSE, sys_path |-> FALSE,
     mic_frames |-> 0, sys_frames |-> 0, sys_backend |-> "none"]

\* `return {}`
EmptyResult == [NoResult EXCEPT !.kind = "empty"]

IdleCall ==
    [op |-> "none", key |-> "m1", pc |-> "idle", b |-> 0,
     exc |-> "none", afterStart |-> FALSE, res |-> NoResult]

\* No transcription has called the merge.
NoMerge ==
    [phase |-> "idle", given |-> <<>>, heap |-> <<>>, mic |-> <<>>, sys |-> <<>>,
     out |-> <<>>, ret |-> <<>>, out2 |-> <<>>, ret2 |-> <<>>]

\* No track file exists.
\* No call of list_devices.
NoListing == [phase |-> "idle"]

\* No transcription requested.
NoJobs == [phase |-> "idle"]

NoFiles == [k \in Keys |-> [tr \in Tracks |-> <<>>]]

\* lines 63-69: wave.open(path, "wb") creates the file of track tr of key k
\* or truncates the one that is there.
_open_wav(k, tr) == files' = [files EXCEPT ![k][tr] = <<>>]

Init ==
    /\ sd \in BOOLEAN
    /\ sc \in BOOLEAN
    /\ recordings = [k \in Keys |-> 0]
    /\ bundles = <<>>
    /\ calls = [t \in Threads |-> IdleCall]
    /\ ncalls = 0
    /\ rate = [tr \in Tracks |-> target_rate]
    /\ files = NoFiles
    /\ merger = NoMerge
    /\ listing = NoListing
    /\ jobs = NoJobs

\* The same, on a machine whose devices run at any of the rates.
BlockInit ==
    /\ sd \in BOOLEAN
    /\ sc \in BOOLEAN
    /\ recordings = [k \in Keys |-> 0]
    /\ bundles = <<>>
    /\ calls = [t \in Threads |-> IdleCall]
    /\ ncalls = 0
    /\ rate \in [Tracks -> DeviceRates]
    /\ files = NoFiles
    /\ merger = NoMerge
    /\ listing = NoListing
    /\ jobs = NoJobs

At(t, op, pc) == calls[t].op = op /\ calls[t].pc = pc

\* The call of thread t moves to pc.
Goto(t, pc) == calls' = [calls EXCEPT ![t].pc = pc]

\* The call of thread t ends with an exception raised at its current step.
Raise(t) ==
    calls' = [calls EXCEPT ![t].pc = "raised", ![t].exc = calls[t].pc]

\* Field f of bundle b becomes v.
SetField(b, f, v) == bundles' = [bundles EXCEPT ![b][f] = v]

Bundles == 1..Len(bundles)

Free(t) == calls[t].pc \in {"idle", "returned", "raised"}

\* Bundle b can act no more and, thread t apart, nothing refers to it: it is
\* out of the table, no call holds it, its streams deliver nothing and its
\* thread, if any, has ended.
Unreachable(b, t) ==
    /\ \A k \in Keys : recordings[k] # b
    /\ \A u \in Threads \ {t} : calls[u].b # b
    /\ bundles[b].micDev # "active"
    /\ bundles[b].sysDev # "active"
    /\ bundles[b].thr \in {"none", "exited"}

\* What is left of an unreachable bundle.
Collected == [_StreamBundle("m1") EXCEPT !.popped = TRUE]

\* A request arrives: the first free request thread enters start_recording
\* or stop_recording with some key, dropping what it held of its previous
\* call.  The device ids of a start are drawn where they are used.  A
\* request that overlaps another one is the last request of the run.
Begin(t) ==
    /\ Free(t)
    /\ \A u \in Threads : u < t => ~Free(u)
    /\ ncalls < MaxCalls
    /\ (\E u \in Threads : ~Free(u)) => ncalls = MaxCalls - 1
    /\ \E op \in {"start", "stop"}, k \in Keys :
          calls' = [calls EXCEPT ![t] =
                [IdleCall EXCEPT !.op = op, !.key = k,
                                 !.pc = IF op = "start" THEN "check" ELSE "pop"]]
    /\ bundles' = [b \in Bundles |->
                      IF Unreachable(b, t) THEN Collected ELSE bundles[b]]
    /\ ncalls' = ncalls + 1
    /\ UNCHANGED <<sd, sc, rate, merger, listing, jobs, files, recordings>>

\* ------------------------------------------------------- start_recording
\* StartCheck without the test of line 92: the call goes on to register a
\* bundle whether or not the key is in the table.
StartCheckNoDup(t) ==
    /\ At(t, "start", "check")
    /\ IF ~sd THEN Raise(t) ELSE Goto(t, "register")
    /\ UNCHANGED <<sd, sc, rate, merger, listing, jobs, files, recordings, bundles, ncalls>>

\* lines 89-93: the availability check and the duplicate-key check.
StartCheck(t) ==
    /\ At(t, "start", "check")
    /\ IF ~sd THEN Raise(t)
       ELSE IF recordings[calls[t].key] # 0
            THEN calls' = [calls EXCEPT ![t].pc = "returned", ![t].res = EmptyResult]
            ELSE Goto(t, "register")
    /\ UNCHANGED <<sd, sc, rate, merger, listing, jobs, files, recordings, bundles, ncalls>>

\* lines 95-111: the empty bundle is created and registered under the key.
StartRegister(t) ==
    /\ At(t, "start", "register")
    /\ bundles' = Append(bundles, _StreamBundle(calls[t].key))
    /\ recordings' = [recordings EXCEPT ![calls[t].key] = Len(bundles) + 1]
    /\ calls' = [calls EXCEPT ![t].pc = "mic_open", ![t].b = Len(bundles) + 1]
    /\ UNCHANGED <<sd, sc, rate, merger, listing, jobs, files, ncalls>>

\* lines 115-152: the mic device id (given, or the backend default) resolves
\* to None or -1 and the track is skipped; else the device is queried, its
\* InputStream constructed and started, and from then on the driver calls
\* _mic_cb.  int(), query_devices(), the constructor and start() are outside
\* any try: a failure ends the call with the exception (a stream whose
\* start() failed stays open).
StartMicOpen(t) ==
    /\ At(t, "start", "mic_open")
    /\ \/ Goto(t, "sys_open") /\ UNCHANGED bundles
       \/ Raise(t) /\ UNCHANGED bundles
       \/ Raise(t) /\ SetField(calls[t].b, "micDev", "open")
       \/ SetField(calls[t].b, "micDev", "active") /\ Goto(t, "mic_set")
    /\ UNCHANGED <<sd, sc, rate, merger, listing, jobs, files, recordings, ncalls>>

\* lines 153-155: the stream is stored in the bundle.
StartMicSet(t) ==
    /\ At(t, "start", "mic_set")
    /\ SetField(calls[t].b, "mic_stream", TRUE)
    /\ Goto(t, "mic_wav")
    /\ UNCHANGED <<sd, sc, rate, merger, listing, jobs, files, recordings, ncalls>>

\* line 157: _open_wav for the mic track; a failure is not caught.
StartMicWav(t) ==
    /\ At(t, "start", "mic_wav")
    /\ \/ /\ SetField(calls[t].b, "mic_wav", "open")
          /\ _open_wav(calls[t].key, "mic")
          /\ Goto(t, "sys_open")
       \/ Raise(t) /\ UNCHANGED <<bundles, files>>
    /\ UNCHANGED <<sd, sc, rate, merger, listing, jobs, recordings, ncalls>>

\* lines 161-213: the output device id resolves to None or -1 and the track
\* is skipped; else the device is queried (outside the try: a failure ends
\* the call) and, inside the try of line 177, the loopback InputStream is
\* constructed and started.  A failure of the constructor or of start()
\* goes to the except of line 221.
StartSysOpen(t) ==
    /\ At(t, "start", "sys_open")
    /\ \/ Goto(t, "ret") /\ UNCHANGED bundles
       \/ Raise(t) /\ UNCHANGED bundles
       \/ SetField(calls[t].b, "primFailed", TRUE) /\ Goto(t, "fb_thread")
       \/ /\ bundles' = [bundles EXCEPT ![calls[t].b].primFailed = TRUE,
                                         ![calls[t].b].sysDev = "open"]
          /\ Goto(t, "fb_thread")
       \/ SetField(calls[t].b, "sysDev", "active") /\ Goto(t, "sys_set")
    /\ UNCHANGED <<sd, sc, rate, merger, listing, jobs, files, recordings, ncalls>>

\* lines 214-217: the stream and the "sounddevice" tag are stored.
StartSysSet(t) ==
    /\ At(t, "start", "sys_set")
    /\ bundles' = [bundles EXCEPT ![calls[t].b].sys_stream = TRUE,
                                  ![calls[t].b].sys_backend = "sounddevice"]
    /\ Goto(t, "sys_wav")
    /\ UNCHANGED <<sd, sc, rate, merger, listing, jobs, files, recordings, ncalls>>

\* line 219: _open_wav for the system track, still inside the try: a failure
\* goes to the except of line 221 with the primary stream started.
StartSysWav(t) ==
    /\ At(t, "start", "sys_wav")
    /\ \/ /\ SetField(calls[t].b, "sys_wav", "open")
          /\ _open_wav(calls[t].key, "sys")
          /\ Goto(t, "ret")
       \/ /\ SetField(calls[t].b, "primFailed", TRUE)
          /\ Goto(t, "fb_thread")
          /\ UNCHANGED files
    /\ UNCHANGED <<sd, sc, rate, merger, listing, jobs, recordings, ncalls>>

\* lines 221-265: without soundcard the exception is re-raised; else the
\* stop event is created and the fallback thread started.
StartFbThread(t) ==
    /\ At(t, "start", "fb_thread")
    /\ IF ~sc
       THEN Raise(t) /\ UNCHANGED bundles
       ELSE SetField(calls[t].b, "thr", "resolve") /\ Goto(t, "fb_set")
    /\ UNCHANGED <<sd, sc, rate, merger, listing, jobs, files, recordings, ncalls>>

\* StartFbSet without line 268: the backend tag keeps what the primary
\* attempt left in it.
StartFbSetUntagged(t) ==
    /\ At(t, "start", "fb_set")
    /\ bundles' = [bundles EXCEPT ![calls[t].b].sys_stop_event = TRUE,
                                  ![calls[t].b].sys_thread = TRUE]
    /\ Goto(t, "fb_wav")
    /\ UNCHANGED <<sd, sc, rate, merger, listing, jobs, files, recordings, ncalls>>

\* lines 266-270: event, thread and the "soundcard" tag are stored.
StartFbSet(t) ==
    /\ At(t, "start", "fb_set")
    /\ bundles' = [bundles EXCEPT ![calls[t].b].sys_stop_event = TRUE,
                                  ![calls[t].b].sys_thread = TRUE,
                                  ![calls[t].b].sys_backend = "soundcard"]
    /\ Goto(t, "fb_wav")
    /\ UNCHANGED <<sd, sc, rate, merger, listing, jobs, files, recordings, ncalls>>

\* line 272: _open_wav for the system track of the fallback; a failure is
\* not caught.
StartFbWav(t) ==
    /\ At(t, "start", "fb_wav")
    /\ \/ /\ SetField(calls[t].b, "sys_wav", "open")
          /\ _open_wav(calls[t].key, "sys")
          /\ Goto(t, "ret")
       \/ Raise(t) /\ UNCHANGED <<bundles, files>>
    /\ UNCHANGED <<sd, sc, rate, merger, listing, jobs, recordings, ncalls>>

\* lines 277-280: a path is reported for each track whose writer is set.
StartRet(t) ==
    /\ At(t, "start", "ret")
    /\ calls' = [calls EXCEPT ![t].pc = "returned",
                    ![t].res = [NoResult EXCEPT
                        !.kind = "start",
                        !.mic_path = bundles[calls[t].b].mic_wav # "none",
                        !.sys_path = bundles[calls[t].b].sys_wav # "none"]]
    /\ SetField(calls[t].b, "startRet", "returned")
    /\ UNCHANGED <<sd, sc, rate, merger, listing, jobs, files, recordings, ncalls>>

start_recording(t) ==
    \/ StartCheck(t)
    \/ StartRegister(t)
    \/ StartMicOpen(t)
    \/ StartMicSet(t)
    \/ StartMicWav(t)
    \/ StartSysOpen(t)
    \/ StartSysSet(t)
    \/ StartSysWav(t)
    \/ StartFbThread(t)
    \/ StartFbSet(t)
    \/ StartFbWav(t)
    \/ StartRet(t)

\* -------------------------------------------------------- stop_recording
\* StopPop with `_recordings.pop(meeting_id)`, no default: an absent key
\* raises KeyError.
StopPopNoDefault(t) ==
    /\ At(t, "stop", "pop")
    /\ LET b == recordings[calls[t].key] IN
       IF b = 0
       THEN Raise(t) /\ UNCHANGED <<recordings, bundles>>
       ELSE /\ recordings' = [recordings EXCEPT ![calls[t].key] = 0]
            /\ SetField(b, "popped", TRUE)
            /\ calls' = [calls EXCEPT ![t].pc = "mic_stop", ![t].b = b,
                            ![t].afterStart = (bundles[b].startRet = "returned")]
    /\ UNCHANGED <<sd, sc, rate, merger, listing, jobs, files, ncalls>>

\* lines 284-286: the bundle is popped from the table; an absent key
\* returns {}.
StopPop(t) ==
    /\ At(t, "stop", "pop")
    /\ LET b == recordings[calls[t].key] IN
       IF b = 0
       THEN /\ calls' = [calls EXCEPT ![t].pc = "returned", ![t].res = EmptyResult]
            /\ UNCHANGED <<recordings, bundles>>
       ELSE /\ recordings' = [recordings EXCEPT ![calls[t].key] = 0]
            /\ SetField(b, "popped", TRUE)
            /\ calls' = [calls EXCEPT ![t].pc = "mic_stop", ![t].b = b,
                            ![t].afterStart = (bundles[b].startRet = "returned")]
    /\ UNCHANGED <<sd, sc, rate, merger, listing, jobs, files, ncalls>>

\* The outcomes of `stream.stop(); stream.close()` on a stream in state dev:
\* <<state after, raised>>.  stop() returns once the callback has ended; when
\* stop() raises, the stream is left running or stopped, and close() is
\* skipped; when close() raises the stream is stopped.
StopCloseStream(dev) ==
    {<<"closed", FALSE>>, <<dev, TRUE>>, <<"stopped", TRUE>>}

\* lines 288-289, inside the try of line 287: an exception skips to the
\* finally of line 296 and is re-raised after it.
StopMicStream(t) ==
    /\ At(t, "stop", "mic_stop")
    /\ IF ~bundles[calls[t].b].mic_stream
       THEN Goto(t, "sys_stop") /\ UNCHANGED bundles
       ELSE \E o \in StopCloseStream(bundles[calls[t].b].micDev) :
               /\ SetField(calls[t].b, "micDev", o[1])
               /\ IF o[2]
                  THEN calls' = [calls EXCEPT ![t].pc = "mic_close", ![t].exc = "mic_stop"]
                  ELSE Goto(t, "sys_stop")
    /\ UNCHANGED <<sd, sc, rate, merger, listing, jobs, files, recordings, ncalls>>

\* lines 290-291.
StopSysStream(t) ==
    /\ At(t, "stop", "sys_stop")
    /\ IF ~bundles[calls[t].b].sys_stream
       THEN Goto(t, "flag") /\ UNCHANGED bundles
       ELSE \E o \in StopCloseStream(bundles[calls[t].b].sysDev) :
               /\ SetField(calls[t].b, "sysDev", o[1])
               /\ IF o[2]
                  THEN calls' = [calls EXCEPT ![t].pc = "mic_close", ![t].exc = "sys_stop"]
                  ELSE Goto(t, "flag")
    /\ UNCHANGED <<sd, sc, rate, merger, listing, jobs, files, recordings, ncalls>>

\* lines 292-293: the stop event of the fallback thread is set.
StopFlag(t) ==
    /\ At(t, "stop", "flag")
    /\ IF bundles[calls[t].b].sys_stop_event
       THEN SetField(calls[t].b, "flag", TRUE)
       ELSE UNCHANGED bundles
    /\ Goto(t, "join")
    /\ UNCHANGED <<sd, sc, rate, merger, listing, jobs, files, recordings, ncalls>>

\* StopJoin with `join()`, no timeout: it returns only when the thread has
\* ended.
StopJoinNoTimeout(t) ==
    /\ At(t, "stop", "join")
    /\ bundles[calls[t].b].sys_thread => bundles[calls[t].b].thr = "exited"
    /\ Goto(t, "mic_close")
    /\ UNCHANGED <<sd, sc, rate, merger, listing, jobs, files, recordings, bundles, ncalls>>

\* lines 294-295: join(timeout=1.0) returns when the thread has ended and
\* also when the second has passed, whatever the thread is doing.
StopJoin(t) ==
    /\ At(t, "stop", "join")
    /\ Goto(t, "mic_close")
    /\ UNCHANGED <<sd, sc, rate, merger, listing, jobs, files, recordings, bundles, ncalls>>

\* lines 297-301 (finally): the mic writer is closed, errors swallowed.
StopMicClose(t) ==
    /\ At(t, "stop", "mic_close")
    /\ IF bundles[calls[t].b].mic_wav # "none"
       THEN SetField(calls[t].b, "mic_wav", "closed")
       ELSE UNCHANGED bundles
    /\ Goto(t, "sys_close")
    /\ UNCHANGED <<sd, sc, rate, merger, listing, jobs, files, recordings, ncalls>>

\* lines 302-306 (finally): the system writer is closed; a pending exception
\* of the try is then re-raised.
StopSysClose(t) ==
    /\ At(t, "stop", "sys_close")
    /\ IF bundles[calls[t].b].sys_wav # "none"
       THEN SetField(calls[t].b, "sys_wav", "closed")
       ELSE UNCHANGED bundles
    /\ Goto(t, IF calls[t].exc # "none" THEN "raised" ELSE "ret")
    /\ UNCHANGED <<sd, sc, rate, merger, listing, jobs, files, recordings, ncalls>>

\* lines 307-316: the per-track metadata.
StopRet(t) ==
    /\ At(t, "stop", "ret")
    /\ LET bd == bundles[calls[t].b] IN
       calls' = [calls EXCEPT ![t].pc = "returned",
                    ![t].res = [kind |-> "stop",
                                mic_path |-> bd.mic_wav # "none",
                                sys_path |-> bd.sys_wav # "none",
                                mic_frames |-> bd.mic_frames,
                                sys_frames |-> bd.sys_frames,
                                sys_backend |-> bd.sys_backend]]
    /\ UNCHANGED <<sd, sc, rate, merger, listing, jobs, files, recordings, bundles, ncalls>>

stop_recording(t) ==
    \/ StopPop(t)
    \/ StopMicStream(t)
    \/ StopSysStream(t)
    \/ StopFlag(t)
    \/ StopJoin(t)
    \/ StopMicClose(t)
    \/ StopSysClose(t)
    \/ StopRet(t)

\* ------------------------------------------------------------- producers
\* The fields of a bundle that belong to track tr.
Wav(tr) == IF tr = "mic" THEN "mic_wav" ELSE "sys_wav"
Frames(tr) == IF tr = "mic" THEN "mic_frames" ELSE "sys_frames"
Blocks(tr) == IF tr = "mic" THEN "mic_blocks" ELSE "sys_blocks"
Log(tr) == IF tr = "mic" THEN "mic_log" ELSE "sys_log"
Late(tr) == IF tr = "mic" THEN "lateMic" ELSE "lateSys"

\* The file of track tr after a producer has turned bundle record bd of
\* bundle b into nb: a block that was written is in the file, marked with
\* the bundle and the frame count its writer has reached.
FileAfter(b, bd, nb, tr) ==
    IF nb[Frames(tr)] # bd[Frames(tr)]
    THEN [files EXCEPT ![bd.key][tr] = Append(@, <<b, nb[Frames(tr)]>>)]
    ELSE files

\* `if bundle.X_wav is not None: try: writeframes; X_frames += n; except: pass`
\* on bundle record bd: the bundle records that can result.  writeframes on
\* a closed Wave_write raises, like a failed write, and the block is lost.
\* The frame counter is followed up to MaxFrames.
WriteBlock(bd, wav, frames, late) ==
    IF bd[wav] = "none" THEN {bd}
    ELSE IF bd[wav] = "closed" THEN {[bd EXCEPT ![late] = TRUE]}
    ELSE {bd} \cup {[bd EXCEPT ![frames] = @ + 1] : x \in {y \in {1} : bd[frames] < MaxFrames}}

\* lines 123-140: the driver delivers a block to the mic callback, which it
\* does while the stream is active.
_mic_cb(b) ==
    /\ bundles[b].micDev = "active"
    /\ \E nb \in WriteBlock(bundles[b], "mic_wav", "mic_frames", "lateMic") :
          /\ bundles' = [bundles EXCEPT ![b] = nb]
          /\ files' = FileAfter(b, bundles[b], nb, "mic")
    /\ UNCHANGED <<sd, sc, rate, merger, listing, jobs, recordings, calls, ncalls>>

\* lines 184-200: the same for the primary loopback stream.
_sys_cb(b) ==
    /\ bundles[b].sysDev = "active"
    /\ \E nb \in WriteBlock(bundles[b], "sys_wav", "sys_frames", "lateSys") :
          /\ bundles' = [bundles EXCEPT ![b] = nb]
          /\ files' = FileAfter(b, bundles[b], nb, "sys")
    /\ UNCHANGED <<sd, sc, rate, merger, listing, jobs, recordings, calls, ncalls>>

\* lines 228-244: the loopback microphone is looked up by name, then by the
\* default speaker; without one the thread returns.  Entering the recorder
\* can raise, which ends the thread too.
ScResolve(b) ==
    /\ bundles[b].thr = "resolve"
    /\ \E n \in {"check", "exited"} : SetField(b, "thr", n)
    /\ UNCHANGED <<sd, sc, rate, merger, listing, jobs, files, recordings, calls, ncalls>>

\* line 245: `while not stop_event.is_set()`.
ScCheck(b) ==
    /\ bundles[b].thr = "check"
    /\ SetField(b, "thr", IF bundles[b].flag THEN "exited" ELSE "pull")
    /\ UNCHANGED <<sd, sc, rate, merger, listing, jobs, files, recordings, calls, ncalls>>

\* lines 246-260: rec.record returns a block, which is written.
ScRecord(b) ==
    /\ bundles[b].thr = "pull"
    /\ \E nb \in WriteBlock(bundles[b], "sys_wav", "sys_frames", "lateSys") :
          /\ bundles' = [bundles EXCEPT ![b] = [nb EXCEPT !.thr = "check"]]
          /\ files' = FileAfter(b, bundles[b], nb, "sys")
    /\ UNCHANGED <<sd, sc, rate, merger, listing, jobs, recordings, calls, ncalls>>

\* line 246: rec.record raises; nothing in _sc_loop catches it.
ScRecordFail(b) ==
    /\ bundles[b].thr = "pull"
    /\ SetField(b, "thr", "exited")
    /\ UNCHANGED <<sd, sc, rate, merger, listing, jobs, files, recordings, calls, ncalls>>

_sc_loop(b) ==
    \/ ScResolve(b)
    \/ ScCheck(b)
    \/ ScRecord(b)
    \/ ScRecordFail(b)

Next ==
    \/ \E t \in Threads : Begin(t)
    \/ \E t \in Threads : start_recording(t)
    \/ \E t \in Threads : stop_recording(t)
    \/ \E b \in Bundles : _mic_cb(b)
    \/ \E b \in Bundles : _sys_cb(b)
    \/ \E b \in Bundles : _sc_loop(b)

Spec == Init /\ [][Next]_vars

\* ----------------------------------------------- producers, block by block
\* The same producers with every delivered block followed through the
\* pipeline of lines 124-140 (184-200, 246-260): resample, append, count.

\* bundle.mic_rate / bundle.sys_rate as a producer reads it: None (0) until
\* line 154 (216, 269) has stored the rate of the device, which start does
\* after the stream (the thread) is started.
SeenRate(bd, tr) ==
    IF tr = "mic"
    THEN (IF bd.mic_stream THEN rate["mic"] ELSE 0)
    ELSE (IF bd.sys_stream \/ bd.sys_thread THEN rate["sys"] ELSE 0)

\* soxr.resample(x, from, to): the number of frames of its result.
Resample(n, from, to) == (n * to) \div from

\* Resampled with a failure of soxr.resample losing the block: nothing is left
\* of it to append.
ResampledOrLost(r) ==
    IF r # 0 /\ r # target_rate
    THEN {[rs |-> "ok", out |-> Resample(DEFAULT_BLOCKSIZE, r, target_rate)],
          [rs |-> "failed", out |-> 0]}
    ELSE {[rs |-> "none", out |-> DEFAULT_BLOCKSIZE]}

\* lines 126-131: the block after the resampling stage when the producer
\* reads rate r.  No resampling without a rate or at the target rate; else
\* soxr.resample returns the resampled block, or raises and the block goes
\* on as it was delivered.
Resampled(r) ==
    IF r # 0 /\ r # target_rate
    THEN {[rs |-> "ok", out |-> Resample(DEFAULT_BLOCKSIZE, r, target_rate)],
          [rs |-> "failed", out |-> DEFAULT_BLOCKSIZE]}
    ELSE {[rs |-> "none", out |-> DEFAULT_BLOCKSIZE]}

\* A delivered block: n frames delivered, out frames after the resampling
\* stage, and its fate: "held" (in the hand of _sc_loop), "skipped" (the
\* track has no writer), "written", "dropped" (writeframes raised).
Block(r, fate) ==
    [n |-> DEFAULT_BLOCKSIZE, rs |-> r.rs, out |-> r.out, fate |-> fate]

\* The blocks delivered to the tracks of a bundle are followed up to
\* MaxBlocks of them.
Delivered(bd) == Len(bd.mic_blocks) + Len(bd.sys_blocks)

\* lines 123-140 (184-200): one run of the driver callback of track tr, on
\* delivery number id.  The callback of a stream is not re-entered, and
\* stop() of the stream waits for it.
Callback(b, tr) ==
    LET bd == bundles[b]
        id == Len(bd[Blocks(tr)]) + 1
    IN  /\ Delivered(bd) < MaxBlocks
        /\ \E r \in Resampled(SeenRate(bd, tr)) :
              \/ /\ bd[Wav(tr)] = "none"
                 /\ bundles' = [bundles EXCEPT
                        ![b][Blocks(tr)] = Append(@, Block(r, "skipped"))]
                 /\ UNCHANGED files
              \/ /\ bd[Wav(tr)] = "closed"
                 /\ bundles' = [bundles EXCEPT
                        ![b][Blocks(tr)] = Append(@, Block(r, "dropped")),
                        ![b][Late(tr)] = TRUE]
                 /\ UNCHANGED files
              \/ /\ bd[Wav(tr)] = "open"
                 /\ bundles' = [bundles EXCEPT
                        ![b][Blocks(tr)] = Append(@, Block(r, "written")),
                        ![b][Log(tr)] = Append(@, id),
                        ![b][Frames(tr)] = @ + r.out]
                 /\ files' = [files EXCEPT ![bd.key][tr] = Append(@, <<b, id>>)]
              \/ /\ bd[Wav(tr)] = "open"
                 /\ bundles' = [bundles EXCEPT
                        ![b][Blocks(tr)] = Append(@, Block(r, "dropped"))]
                 /\ UNCHANGED files

MicBlock(b) ==
    /\ bundles[b].micDev = "active"
    /\ Callback(b, "mic")
    /\ UNCHANGED <<sd, sc, rate, merger, listing, jobs, recordings, calls, ncalls>>

SysBlock(b) ==
    /\ bundles[b].sysDev = "active"
    /\ Callback(b, "sys")
    /\ UNCHANGED <<sd, sc, rate, merger, listing, jobs, recordings, calls, ncalls>>

\* lines 228-234: the loopback microphone is looked up by the name of the
\* output device.  With one found (mic is not None) lines 235-243 are
\* skipped and the recorder is entered, which can raise and end the thread;
\* when the device has no name, the lookup raises or finds nothing, the
\* thread goes on to line 235.
ScByName(b) ==
    /\ bundles[b].thr = "resolve"
    /\ \/ \E n \in {"check", "exited"} :
             bundles' = [bundles EXCEPT ![b].monitor = "name", ![b].thr = n]
       \/ SetField(b, "thr", "resolve2")
    /\ UNCHANGED <<sd, sc, rate, merger, listing, jobs, files, recordings, calls, ncalls>>

\* lines 235-243: the loopback microphone of the default speaker; without
\* one the thread returns.
ScByDefault(b) ==
    /\ bundles[b].thr = "resolve2"
    /\ \/ \E n \in {"check", "exited"} :
             bundles' = [bundles EXCEPT ![b].monitor = "default", ![b].thr = n]
       \/ bundles' = [bundles EXCEPT ![b].monitor = "none", ![b].thr = "exited"]
    /\ UNCHANGED <<sd, sc, rate, merger, listing, jobs, files, recordings, calls, ncalls>>

\* lines 246-252: rec.record returns a block, which goes through the
\* resampling stage.
ScPull(b) ==
    /\ bundles[b].thr = "pull"
    /\ Delivered(bundles[b]) < MaxBlocks
    /\ \E r \in Resampled(SeenRate(bundles[b], "sys")) :
          bundles' = [bundles EXCEPT
              ![b].sys_blocks = Append(@, Block(r, "held")),
              ![b].held = Len(bundles[b].sys_blocks) + 1,
              ![b].thr = "write"]
    /\ UNCHANGED <<sd, sc, rate, merger, listing, jobs, files, recordings, calls, ncalls>>

\* ScWrite with no `try` around writeframes: a failed write ends the thread.
ScWriteUncaught(b) ==
    LET bd == bundles[b]
        id == bd.held
    IN  /\ bd.thr = "write"
        /\ \/ /\ bd.sys_wav = "none"
              /\ bundles' = [bundles EXCEPT ![b].sys_blocks[id].fate = "skipped",
                                            ![b].held = 0, ![b].thr = "check"]
              /\ UNCHANGED files
           \/ /\ bd.sys_wav = "closed"
              /\ bundles' = [bundles EXCEPT ![b].sys_blocks[id].fate = "dropped",
                                            ![b].lateSys = TRUE,
                                            ![b].held = 0, ![b].thr = "exited"]
              /\ UNCHANGED files
           \/ /\ bd.sys_wav = "open"
              /\ bundles' = [bundles EXCEPT ![b].sys_blocks[id].fate = "written",
                                            ![b].sys_log = Append(@, id),
                                            ![b].thr = "count"]
              /\ files' = [files EXCEPT ![bd.key]["sys"] = Append(@, <<b, id>>)]
           \/ /\ bd.sys_wav = "open"
              /\ bundles' = [bundles EXCEPT ![b].sys_blocks[id].fate = "dropped",
                                            ![b].held = 0, ![b].thr = "exited"]
              /\ UNCHANGED files
        /\ UNCHANGED <<sd, sc, rate, merger, listing, jobs, recordings, calls, ncalls>>

\* lines 255-257: `if bundle.sys_wav is not None: try: writeframes(...)`.
ScWrite(b) ==
    LET bd == bundles[b]
        id == bd.held
    IN  /\ bd.thr = "write"
        /\ \/ /\ bd.sys_wav = "none"
              /\ bundles' = [bundles EXCEPT ![b].sys_blocks[id].fate = "skipped",
                                            ![b].held = 0, ![b].thr = "check"]
              /\ UNCHANGED files
           \/ /\ bd.sys_wav = "closed"
              /\ bundles' = [bundles EXCEPT ![b].sys_blocks[id].fate = "dropped",
                                            ![b].lateSys = TRUE,
                                            ![b].held = 0, ![b].thr = "check"]
              /\ UNCHANGED files
           \/ /\ bd.sys_wav = "open"
              /\ bundles' = [bundles EXCEPT ![b].sys_blocks[id].fate = "written",
                                            ![b].sys_log = Append(@, id),
                                            ![b].thr = "count"]
              /\ files' = [files EXCEPT ![bd.key]["sys"] = Append(@, <<b, id>>)]
           \/ /\ bd.sys_wav = "open"
              /\ bundles' = [bundles EXCEPT ![b].sys_blocks[id].fate = "dropped",
                                            ![b].held = 0, ![b].thr = "check"]
              /\ UNCHANGED files
        /\ UNCHANGED <<sd, sc, rate, merger, listing, jobs, recordings, calls, ncalls>>

\* line 258: `bundle.sys_frames += f32.shape[0]`.
ScCount(b) ==
    /\ bundles[b].thr = "count"
    /\ bundles' = [bundles EXCEPT
          ![b].sys_frames = @ + bundles[b].sys_blocks[bundles[b].held].out,
          ![b].held = 0, ![b].thr = "check"]
    /\ UNCHANGED <<sd, sc, rate, merger, listing, jobs, files, recordings, calls, ncalls>>

BlockNext ==
    \/ Begin(1) /\ (Len(bundles) = 0 \/ calls'[1].op = "stop")
    \/ start_recording(1)
    \/ stop_recording(1)
    \/ \E b \in Bundles : MicBlock(b)
    \/ \E b \in Bundles : SysBlock(b)
    \/ \E b \in Bundles : ScByName(b)
    \/ \E b \in Bundles : ScByDefault(b)
    \/ \E b \in Bundles : ScCheck(b)
    \/ \E b \in Bundles : ScPull(b)
    \/ \E b \in Bundles : ScRecordFail(b)
    \/ \E b \in Bundles : ScWrite(b)
    \/ \E b \in Bundles : ScCount(b)

\* One request thread and one session: the calls come one after the other,
\* no start follows the start that registered a bundle, and every block of
\* the session is followed.
BlockSpec == BlockInit /\ [][BlockNext]_vars

\* -------------------------------------------------------------- the merge
\* transcription_service._merge_and_filter.  A segment is a dict, that is an
\* object: heap[i] is the dict of object i, and a list is a sequence of
\* objects, so that the list the merge returns holds dicts of its input
\* lists, as it does in the code.  A text is the sequence of its characters.
MaxSegs == 3
Starts == {0, 400, 500}
Durations == {100, 600}
Texts == {<<"a">>, <<" ", "a">>, <<"b">>}
Confidences == {"None", "high"}

\* the dedup window of line 162, in ms
Window == 500

\* The dict engine.transcribe_file returns for a segment (both times are
\* ints, on which the int() of lines 158-164 changes nothing; the confidence
\* is None or a float) with the speaker that lines 96 and 100 add.
Segment(st, d, tx, cf, sp) ==
    [t_start_ms |-> st, t_end_ms |-> st + d, text |-> tx, confidence |-> cf,
     speaker |-> sp]

SegmentsOf(sp) ==
    {Segment(st, d, tx, cf, sp) :
        st \in Starts, d \in Durations, tx \in Texts, cf \in Confidences}

\* dict.get(k, default)
Get(d, k, default) == IF k \in DOMAIN d THEN d[k] ELSE default

\* d[k] = v on a dict, which adds the key when the dict lacks it.
Set(d, k, v) == [j \in DOMAIN d \cup {k} |-> IF j = k THEN v ELSE d[j]]

\* str.strip()
RECURSIVE lstrip(_)
lstrip(s) == IF s # <<>> /\ Head(s) = " " THEN lstrip(Tail(s)) ELSE s

RECURSIVE rstrip(_)
rstrip(s) ==
    IF s # <<>> /\ s[Len(s)] = " " THEN rstrip(SubSeq(s, 1, Len(s) - 1)) ELSE s

strip(s) == rstrip(lstrip(s))

\* line 158: the sort key, and the order of two keys.
SortKey(d) == <<Get(d, "t_start_ms", 0), Get(d, "t_end_ms", 0)>>

KeyLess(a, b) == a[1] < b[1] \/ (a[1] = b[1] /\ a[2] < b[2])

\* A sort that is not stable: object x goes before the first object whose
\* key is not less than its own.
RECURSIVE InsertBeforeEqual(_, _, _)
InsertBeforeEqual(h, sorted, x) ==
    IF sorted = <<>> THEN <<x>>
    ELSE IF ~KeyLess(SortKey(h[Head(sorted)]), SortKey(h[x]))
         THEN <<x>> \o sorted
         ELSE <<Head(sorted)>> \o InsertBeforeEqual(h, Tail(sorted), x)

\* list.sort is stable: object x goes before the first object of the sorted
\* list whose key is greater than its own.
RECURSIVE Insert(_, _, _)
Insert(h, sorted, x) ==
    IF sorted = <<>> THEN <<x>>
    ELSE IF KeyLess(SortKey(h[x]), SortKey(h[Head(sorted)]))
         THEN <<x>> \o sorted
         ELSE <<Head(sorted)>> \o Insert(h, Tail(sorted), x)

\* all_segs.sort(key=...) left the list as it was.
Unsorted(h, list) == list

\* line 158: all_segs.sort(key=...).
RECURSIVE Sort(_, _)
Sort(h, list) ==
    IF list = <<>> THEN <<>>
    ELSE Insert(h, Sort(h, SubSeq(list, 1, Len(list) - 1)), list[Len(list)])

Max(a, b) == IF a >= b THEN a ELSE b

\* The texts are compared as they are.
IsDuplicateRaw(h, s, last) ==
    /\ Get(h[s], "text", <<>>) = Get(h[last], "text", <<>>)
    /\ Get(h[s], "t_start_ms", 0) - Get(h[last], "t_start_ms", 0) < Window

\* The window test is not strict.
IsDuplicateInclusive(h, s, last) ==
    /\ strip(Get(h[s], "text", <<>>)) = strip(Get(h[last], "text", <<>>))
    /\ Get(h[s], "t_start_ms", 0) - Get(h[last], "t_start_ms", 0) <= Window

\* line 162, after "dedup and": object s repeats object last, the end of
\* dedup.
IsDuplicate(h, s, last) ==
    /\ strip(Get(h[s], "text", <<>>)) = strip(Get(h[last], "text", <<>>))
    /\ Get(h[s], "t_start_ms", 0) - Get(h[last], "t_start_ms", 0) < Window

\* The end of the absorbed segment replaces the end of dedup[-1].
ExtendToCurrent(h, s, last) ==
    [h EXCEPT ![last] = Set(h[last], "t_end_ms", Get(h[s], "t_end_ms", 0))]

\* The collapse also moves the start of dedup[-1] to the absorbed start.
ExtendAndShift(h, s, last) ==
    [h EXCEPT ![last] =
        Set(Set(h[last], "t_end_ms",
                Max(Get(h[last], "t_end_ms", 0), Get(h[s], "t_end_ms", 0))),
            "t_start_ms", Get(h[s], "t_start_ms", 0))]

\* line 164: the write to the dict at the end of dedup.
Extend(h, s, last) ==
    [h EXCEPT ![last] = Set(h[last], "t_end_ms",
                            Max(Get(h[last], "t_end_ms", 0),
                                Get(h[s], "t_end_ms", 0)))]

\* lines 160-167: the loop over the sorted list, from the objects still to
\* visit (rest) and the list built so far (dedup); the result is the heap
\* and the list returned.
RECURSIVE Dedup(_, _, _)
Dedup(h, rest, dedup) ==
    IF rest = <<>> THEN [heap |-> h, out |-> dedup]
    ELSE LET s == Head(rest) IN
         IF dedup # <<>> /\ IsDuplicate(h, s, dedup[Len(dedup)])
         THEN Dedup(Extend(h, s, dedup[Len(dedup)]), Tail(rest), dedup)
         ELSE Dedup(h, Tail(rest), Append(dedup, s))

\* lines 155-167, on the lists mic and sys of objects of heap h.
_merge_and_filter(h, mic, sys) == Dedup(h, Sort(h, mic \o sys), <<>>)

\* The dicts of a list, in its order.
Dicts(h, list) == [i \in 1..Len(list) |-> h[list[i]]]

\* The worker has transcribed both tracks (lines 94-100): any two lists of
\* at most MaxSegs segments together, in any order.
MergeInit ==
    /\ sd = TRUE
    /\ sc = TRUE
    /\ recordings = [k \in Keys |-> 0]
    /\ bundles = <<>>
    /\ calls = [t \in Threads |-> IdleCall]
    /\ ncalls = 0
    /\ rate = [tr \in Tracks |-> target_rate]
    /\ files = NoFiles
    /\ listing = NoListing
    /\ jobs = NoJobs
    /\ \E nm \in 0..MaxSegs : \E ns \in 0..(MaxSegs - nm) :
          \E m \in [1..nm -> SegmentsOf("You")], r \in [1..ns -> SegmentsOf("Remote")] :
              merger = [NoMerge EXCEPT
                            !.phase = "input",
                            !.heap = [i \in 1..(nm + ns) |->
                                         IF i <= nm THEN m[i] ELSE r[i - nm]],
                            !.given = [i \in 1..(nm + ns) |->
                                         IF i <= nm THEN m[i] ELSE r[i - nm]],
                            !.mic = [i \in 1..nm |-> i],
                            !.sys = [i \in 1..ns |-> nm + i]]

\* line 101: segments_all = _merge_and_filter(mic_segments, sys_segments).
Merge ==
    /\ merger.phase = "input"
    /\ LET r == _merge_and_filter(merger.heap, merger.mic, merger.sys) IN
       merger' = [merger EXCEPT !.phase = "merged", !.heap = r.heap,
                                !.out = r.out, !.ret = Dicts(r.heap, r.out)]
    /\ UNCHANGED <<sd, sc, recordings, bundles, calls, ncalls, rate, files, listing,
                 jobs>>

\* The returned list is merged with the empty list.
MergeAgain ==
    /\ merger.phase = "merged"
    /\ LET r == _merge_and_filter(merger.heap, merger.out, <<>>) IN
       merger' = [merger EXCEPT !.phase = "remerged", !.heap = r.heap,
                                !.out2 = r.out, !.ret2 = Dicts(r.heap, r.out)]
    /\ UNCHANGED <<sd, sc, recordings, bundles, calls, ncalls, rate, files, listing,
                 jobs>>

MergeNext == Merge \/ MergeAgain

MergeSpec == MergeInit /\ [][MergeNext]_vars

\* A dict without key k.
Lacking(d, k) == [j \in DOMAIN d \ {k} |-> d[j]]

\* The keys the merge reads.
MergeKeys == {"t_start_ms", "t_end_ms", "text"}

WellFormed(d) == MergeKeys \subseteq DOMAIN d

\* Segments of a track that lack one of the keys the merge reads.
MalformedOf(sp) == {Lacking(d, k) : d \in SegmentsOf(sp), k \in MergeKeys}

\* The merge is called with lists of fewer than MaxSegs segments together,
\* at least one of them malformed; the engine never builds such a dict, a
\* caller of _merge_and_filter can.
MalformedInit ==
    /\ sd = TRUE
    /\ sc = TRUE
    /\ recordings = [k \in Keys |-> 0]
    /\ bundles = <<>>
    /\ calls = [t \in Threads |-> IdleCall]
    /\ ncalls = 0
    /\ rate = [tr \in Tracks |-> target_rate]
    /\ files = NoFiles
    /\ listing = NoListing
    /\ jobs = NoJobs
    /\ \E nm \in 0..(MaxSegs - 1) : \E ns \in 0..(MaxSegs - 1 - nm) :
          \E m \in [1..nm -> SegmentsOf("You") \cup MalformedOf("You")],
             r \in [1..ns -> SegmentsOf("Remote") \cup MalformedOf("Remote")] :
              /\ \/ \E i \in 1..nm : ~WellFormed(m[i])
                 \/ \E i \in 1..ns : ~WellFormed(r[i])
              /\ merger = [NoMerge EXCEPT
                            !.phase = "input",
                            !.heap = [i \in 1..(nm + ns) |->
                                         IF i <= nm THEN m[i] ELSE r[i - nm]],
                            !.given = [i \in 1..(nm + ns) |->
                                         IF i <= nm THEN m[i] ELSE r[i - nm]],
                            !.mic = [i \in 1..nm |-> i],
                            !.sys = [i \in 1..ns |-> nm + i]]

MalformedSpec == MalformedInit /\ [][MergeNext]_vars

\* ------------------------------------------------------------ list_devices
\* api/devices.list_devices.  The audio library reports a list of devices,
\* each with a name and its channel counts, and a pair of default indices
\* (-1: no default); or the import failed, or a call into it raises.
MaxDevices == 3
Names == {"Mic", "Speakers"}
ChannelCounts == {0, 2}
QueryOutcomes == {"ok", "query_devices raises", "default raises"}

\* The state that holds nothing but a call of list_devices.
CaptureIdle ==
    /\ sc = TRUE
    /\ recordings = [k \in Keys |-> 0]
    /\ bundles = <<>>
    /\ calls = [t \in Threads |-> IdleCall]
    /\ ncalls = 0
    /\ rate = [tr \in Tracks |-> target_rate]
    /\ files = NoFiles
    /\ merger = NoMerge

\* str(idx), as a sequence of characters
Digit(i) == <<"0", "1", "2", "3", "4", "5", "6", "7", "8", "9">>[i + 1]

RECURSIVE str(_)
str(i) == IF i < 10 THEN <<Digit(i)>> ELSE str(i \div 10) \o <<Digit(i % 10)>>

\* lines 15-19: Device
Device(id, name, kind, is_default) ==
    [id |-> id, name |-> name, kind |-> kind, is_default |-> is_default]

\* The default flag is taken from the place of the entry in its list.
RECURSIVE EnumerateByPlace(_, _, _, _)
EnumerateByPlace(devices, default, idx, acc) ==
    IF idx >= Len(devices) THEN acc
    ELSE LET dev == devices[idx + 1] IN
         EnumerateByPlace(devices, default, idx + 1,
             [inputs |->
                 IF dev.max_input_channels > 0
                 THEN Append(acc.inputs,
                             Device(str(idx), dev.name, "input",
                                    Len(acc.inputs) = default[1]))
                 ELSE acc.inputs,
              outputs |->
                 IF dev.max_output_channels > 0
                 THEN Append(acc.outputs,
                             Device(str(idx), dev.name, "output",
                                    Len(acc.outputs) = default[2]))
                 ELSE acc.outputs])

\* lines 34-39: the loop over enumerate(devices), from index idx on, with
\* the lists built so far.
RECURSIVE Enumerate(_, _, _, _)
Enumerate(devices, default, idx, acc) ==
    IF idx >= Len(devices) THEN acc
    ELSE LET dev == devices[idx + 1] IN
         Enumerate(devices, default, idx + 1,
             [inputs |->
                 IF dev.max_input_channels > 0
                 THEN Append(acc.inputs,
                             Device(str(idx), dev.name, "input",
                                    idx = default[1]))
                 ELSE acc.inputs,
              outputs |->
                 IF dev.max_output_channels > 0
                 THEN Append(acc.outputs,
                             Device(str(idx), dev.name, "output",
                                    idx = default[2]))
                 ELSE acc.outputs])

\* lines 24-25
NoDevices == [inputs |-> <<>>, outputs |-> <<>>]

\* lines 23-44: the answer, for the module-level sd and what the library
\* does.  A call that raises does so before the loop, which leaves both
\* lists empty (lines 40-42).
list_devices(lib, q) ==
    IF ~lib THEN NoDevices
    ELSE IF q.outcome # "ok" THEN NoDevices
    ELSE Enumerate(q.devices, q.default, 0, NoDevices)

ListInit ==
    /\ CaptureIdle
    /\ jobs = NoJobs
    /\ sd \in BOOLEAN
    /\ \E n \in 0..MaxDevices :
          \E devices \in [1..n -> [name : Names,
                                   max_input_channels : ChannelCounts,
                                   max_output_channels : ChannelCounts]],
             default \in (-1..MaxDevices) \X (-1..MaxDevices),
             outcome \in QueryOutcomes :
              listing = [phase |-> "called",
                         q |-> [devices |-> devices, default |-> default,
                                outcome |-> outcome],
                         res |-> NoDevices]

\* GET /devices
ListDevices ==
    /\ listing.phase = "called"
    /\ listing' = [listing EXCEPT !.phase = "answered",
                                  !.res = list_devices(sd, listing.q)]
    /\ UNCHANGED <<sd, sc, recordings, bundles, calls, ncalls, rate, files,
                   merger, jobs>>

ListSpec == ListInit /\ [][ListDevices]_vars

\* -------------------------------------------------- start_transcription_job
\* transcription_service.start_transcription_job for one meeting id, called
\* from the request threads of POST /meetings/{id}/transcribe (a sync
\* endpoint, which the server runs on worker threads).  jobs.status is
\* _jobs[meeting_id].status ("none": no entry); jobs.call[t] is the call of
\* request thread t; jobs.workers holds the position of every worker thread
\* started; jobs.audio tells whether the meeting and both audio rows exist.
MaxJobCalls == 3

JobCapture ==
    /\ CaptureIdle
    /\ sd = TRUE
    /\ listing = NoListing

IdleJobCall == [pc |-> "idle", started |-> FALSE, found |-> "none"]

JobInit ==
    /\ JobCapture
    /\ \E a \in BOOLEAN :
          jobs = [phase |-> "serving", status |-> "none", audio |-> a,
                  call |-> [t \in Threads |-> IdleJobCall],
                  workers |-> <<>>, n |-> 0]

JobUnchanged ==
    UNCHANGED <<sd, sc, recordings, bundles, calls, ncalls, rate, files, merger,
                listing>>

JobAt(t, pc) == jobs.phase = "serving" /\ jobs.call[t].pc = pc

\* A request arrives on a free request thread.
JobBegin(t) ==
    /\ jobs.phase = "serving"
    /\ jobs.call[t].pc \in {"idle", "returned"}
    /\ jobs.n < MaxJobCalls
    /\ jobs' = [jobs EXCEPT !.call[t] = [IdleJobCall EXCEPT !.pc = "check"],
                            !.n = @ + 1]
    /\ JobUnchanged

\* lines 39-41: the lock of the meeting is looked up and not taken; a job
\* found running is returned.
JobCheck(t) ==
    /\ JobAt(t, "check")
    /\ jobs' = [jobs EXCEPT
           !.call[t].found = jobs.status,
           !.call[t].pc = IF jobs.status = "running" THEN "returned" ELSE "set"]
    /\ JobUnchanged

\* line 42: _jobs[meeting_id] = JobState(status="running", ...).
JobSet(t) ==
    /\ JobAt(t, "set")
    /\ jobs' = [jobs EXCEPT !.status = "running", !.call[t].pc = "inputs"]
    /\ JobUnchanged

\* lines 45-56: the meeting and the audio rows are read; without them the
\* job is set to "error" and returned.
JobInputs(t) ==
    /\ JobAt(t, "inputs")
    /\ jobs' = IF jobs.audio
               THEN [jobs EXCEPT !.call[t].pc = "spawn"]
               ELSE [jobs EXCEPT !.status = "error", !.call[t].pc = "returned"]
    /\ JobUnchanged

\* lines 145-147: the worker thread is started and the job returned.
JobSpawn(t) ==
    /\ JobAt(t, "spawn")
    /\ jobs' = [jobs EXCEPT !.workers = Append(@, "load"),
                            !.call[t].pc = "returned",
                            !.call[t].started = TRUE]
    /\ JobUnchanged

Workers == 1..Len(jobs.workers)

WorkerAt(w, pc) == jobs.phase = "serving" /\ jobs.workers[w] = pc

\* lines 60-80: the configuration is read and the job set to "running"
\* ("loading model").
WorkerLoad(w) ==
    /\ WorkerAt(w, "load")
    /\ jobs' = [jobs EXCEPT !.status = "running", !.workers[w] = "transcribe"]
    /\ JobUnchanged

\* lines 94-103: both tracks are transcribed and merged; the progress
\* callback and line 103 set the job to "running".
WorkerTranscribe(w) ==
    /\ WorkerAt(w, "transcribe")
    /\ jobs' = [jobs EXCEPT !.status = "running", !.workers[w] = "delete"]
    /\ JobUnchanged

\* line 110: delete_for_meeting.
WorkerDelete(w) ==
    /\ WorkerAt(w, "delete")
    /\ jobs' = [jobs EXCEPT !.workers[w] = "insert"]
    /\ JobUnchanged

\* lines 113-139: add_segments and the detected language.
WorkerInsert(w) ==
    /\ WorkerAt(w, "insert")
    /\ jobs' = [jobs EXCEPT !.workers[w] = "finish"]
    /\ JobUnchanged

\* line 141: the job is set to "done" and the thread ends.
WorkerDone(w) ==
    /\ WorkerAt(w, "finish")
    /\ jobs' = [jobs EXCEPT !.status = "done", !.workers[w] = "ended"]
    /\ JobUnchanged

\* lines 142-143: an exception anywhere in the worker sets the job to
\* "error" and the thread ends.
WorkerFail(w) ==
    /\ jobs.phase = "serving"
    /\ jobs.workers[w] \in {"load", "transcribe", "delete", "insert"}
    /\ jobs' = [jobs EXCEPT !.status = "error", !.workers[w] = "ended"]
    /\ JobUnchanged

JobNext ==
    \/ \E t \in Threads : JobBegin(t)
    \/ \E t \in Threads : JobCheck(t)
    \/ \E t \in Threads : JobSet(t)
    \/ \E t \in Threads : JobInputs(t)
    \/ \E t \in Threads : JobSpawn(t)
    \/ \E w \in Workers : WorkerLoad(w)
    \/ \E w \in Workers : WorkerTranscribe(w)
    \/ \E w \in Workers : WorkerDelete(w)
    \/ \E w \in Workers : WorkerInsert(w)
    \/ \E w \in Workers : WorkerDone(w)
    \/ \E w \in Workers : WorkerFail(w)

JobSpec == JobInit /\ [][JobNext]_vars

\* ================================================================ claims
Running(b) ==
    bundles[b].thr \in {"resolve", "resolve2", "check", "pull", "write", "count"}

\* The call of thread t is a stop that popped a bundle whose start had
\* returned, and it has ended.
StopEnded(t) ==
    /\ calls[t].op = "stop"
    /\ calls[t].pc \in {"returned", "raised"}
    /\ calls[t].b # 0
    /\ calls[t].afterStart

\* C1: no producer (mic callback, system callback, fallback thread) calls
\* writeframes on a track's writer after stop_recording has closed it.
C1_NoWriteAfterClose ==
    \A b \in Bundles : ~bundles[b].lateMic /\ ~bundles[b].lateSys

\* C2: the system track never has a started primary loopback stream and a
\* running fallback thread at once, whatever step of start_recording failed.
C2_SingleSystemProducer ==
    \A b \in Bundles : ~(bundles[b].sysDev = "active" /\ Running(b))

\* C3: of the start_recording calls for one key at most one creates a
\* session: a key never has two bundles that no stop has popped.
C3_AtMostOneSession ==
    \A k \in Keys :
        Cardinality({b \in Bundles : bundles[b].key = k /\ ~bundles[b].popped}) <= 1

\* C4: start_recording for a key that is in the table returns the empty
\* result and changes neither the table nor any bundle (streams, writers,
\* frame counters, backend tag, thread).
C4_DuplicateStartIsNoOp ==
    [][\A t \in Threads :
          (/\ At(t, "start", "check")
           /\ recordings[calls[t].key] # 0
           /\ calls'[t] # calls[t])
          => /\ calls'[t].pc = "returned"
             /\ calls'[t].res = EmptyResult
             /\ UNCHANGED <<recordings, bundles>>]_vars

\* A second start has returned {} while the session of the key records.
C4_Witness ==
    \E t \in Threads :
        /\ At(t, "start", "returned")
        /\ calls[t].res = EmptyResult
        /\ recordings[calls[t].key] # 0
        /\ bundles[recordings[calls[t].key]].micDev = "active"
        /\ bundles[recordings[calls[t].key]].mic_frames > 0

C6_NeverRaises ==
    \A t \in Threads : calls[t].pc # "raised"

\* C7: a failure of the mic track (query, open, start, writer) only skips
\* that track: it never ends start_recording.
C7_MicFailureSkipsOnlyMic ==
    \A t \in Threads :
        ~(At(t, "start", "raised") /\ calls[t].exc \in {"mic_open", "mic_wav"})

C9_StopReleasesEverything ==
    \A t \in Threads :
        StopEnded(t) =>
            LET bd == bundles[calls[t].b] IN
            /\ bd.mic_stream => bd.micDev = "closed"
            /\ bd.sys_stream => bd.sysDev = "closed"
            /\ bd.sys_stop_event => bd.flag
            /\ bd.mic_wav # "open"
            /\ bd.sys_wav # "open"

\* C10: stop_recording is never held up by the fallback thread: from the
\* moment the stop flag is handled every step of the call can be taken
\* whatever the thread does, and the call then returns the metadata with
\* the writers closed and the bundle out of the table.
C10_StopNotHeldByThread ==
    \A t \in Threads :
        /\ (calls[t].op = "stop" /\ calls[t].pc \in {"flag", "join", "mic_close", "sys_close", "ret"})
           => ENABLED stop_recording(t)
        /\ (At(t, "stop", "returned") /\ calls[t].b # 0 /\ calls[t].afterStart)
           => LET bd == bundles[calls[t].b] IN
              /\ calls[t].res.kind = "stop"
              /\ calls[t].res.mic_frames = bd.mic_frames
              /\ calls[t].res.sys_frames = bd.sys_frames
              /\ bd.mic_wav # "open"
              /\ bd.sys_wav # "open"
              /\ recordings[calls[t].key] # calls[t].b

\* A stop has returned its metadata while the fallback thread is still in
\* its blocking pull.
C10_Witness ==
    \E t \in Threads :
        /\ At(t, "stop", "returned")
        /\ calls[t].afterStart
        /\ calls[t].res.kind = "stop"
        /\ bundles[calls[t].b].flag
        /\ bundles[calls[t].b].thr = "pull"
        /\ bundles[calls[t].b].sys_wav = "closed"

\* C11: once the stop flag of the fallback is set the loop starts no further
\* pull (the flag is tested before every pull), and nothing but the flag
\* ends the loop: the thread leaves the loop only on a test that finds the
\* flag set.
C11_OnlyFlagEndsLoop ==
    [][\A b \in Bundles :
          /\ (bundles[b].thr = "check" /\ bundles[b].flag)
             => bundles'[b].thr # "pull"
          /\ (bundles[b].thr \in {"check", "pull"} /\ bundles'[b].thr = "exited")
             => (bundles[b].thr = "check" /\ bundles[b].flag)]_vars

\* The frames appended through the writer of track tr of bundle record bd:
\* the frames, after the resampling stage, of the blocks in its log.
RECURSIVE SumOut(_, _)
SumOut(blocks, log) ==
    IF log = <<>> THEN 0 ELSE blocks[Head(log)].out + SumOut(blocks, Tail(log))

Appended(bd, tr) == SumOut(bd[Blocks(tr)], bd[Log(tr)])

\* C12: whenever no block is between its append and its count, the frame
\* counter of each track is the total of the frames appended to its writer;
\* the mic_frames and sys_frames a stop_recording returns are those totals;
\* a track whose writer was never opened counts and reports 0.
C12_FramesAreTotals ==
    /\ \A b \in Bundles :
          LET bd == bundles[b] IN
          /\ bd.thr # "count"
             => /\ bd.mic_frames = Appended(bd, "mic")
                /\ bd.sys_frames = Appended(bd, "sys")
          /\ bd.mic_wav = "none" => bd.mic_frames = 0
          /\ bd.sys_wav = "none" => bd.sys_frames = 0
    /\ \A t \in Threads :
          (At(t, "stop", "returned") /\ calls[t].b # 0 /\ calls[t].afterStart)
          => LET bd == bundles[calls[t].b] IN
             /\ calls[t].res.mic_frames = Appended(bd, "mic")
             /\ calls[t].res.sys_frames = Appended(bd, "sys")
             /\ ~calls[t].res.mic_path => calls[t].res.mic_frames = 0
             /\ ~calls[t].res.sys_path => calls[t].res.sys_frames = 0

\* The blocks of track tr of bundle record bd whose append failed.
Dropped(bd, tr) ==
    Cardinality({i \in 1..Len(bd[Blocks(tr)]) : bd[Blocks(tr)][i].fate = "dropped"})

\* C13: a step in which the append of a block fails changes neither the
\* frame counter nor the writer's log of that track, raises into no call,
\* leaves the table alone and does not stop the producer (the stream stays
\* as it is, the fallback loop goes on to its next test of the flag); a stop
\* raises only for a stream that failed to stop, and a stop that returns
\* reports 0 frames for a track none of whose blocks was appended.
C13_FailedAppendDropsBlock ==
    /\ [][\A b \in Bundles, tr \in Tracks :
            Dropped(bundles'[b], tr) > Dropped(bundles[b], tr)
            => /\ bundles'[b][Frames(tr)] = bundles[b][Frames(tr)]
               /\ bundles'[b][Log(tr)] = bundles[b][Log(tr)]
               /\ UNCHANGED <<recordings, calls>>
               /\ bundles'[b].micDev = bundles[b].micDev
               /\ bundles'[b].sysDev = bundles[b].sysDev
               /\ bundles'[b].thr \in {bundles[b].thr, "check"}]_vars
    /\ [](\A t \in Threads :
            /\ At(t, "stop", "raised") => calls[t].exc \in {"mic_stop", "sys_stop"}
            /\ (At(t, "stop", "returned") /\ calls[t].b # 0)
               => /\ bundles[calls[t].b].mic_log = <<>> => calls[t].res.mic_frames = 0
                  /\ bundles[calls[t].b].sys_log = <<>> => calls[t].res.sys_frames = 0)

\* Every write of the mic track of a session failed while its writer was
\* open, the second block after the first was dropped; the stop of the
\* session has returned a mic_path and 0 mic frames.
C13_Witness ==
    \E t \in Threads :
        /\ At(t, "stop", "returned")
        /\ calls[t].afterStart
        /\ calls[t].res.mic_path
        /\ calls[t].res.mic_frames = 0
        /\ Dropped(bundles[calls[t].b], "mic") = 2
        /\ ~bundles[calls[t].b].lateMic

\* C14: a block whose resampling failed goes on unresampled, with the frames
\* it was delivered with, and can still be appended; on a device that runs
\* at the target rate no block is resampled; and the counter of a track
\* grows by the frames each appended block has after the resampling stage,
\* which for these blocks is the delivered count.
C14_ResampleFailurePassesThrough ==
    \A b \in Bundles :
        LET bd == bundles[b] IN
        /\ \A tr \in Tracks : \A i \in 1..Len(bd[Blocks(tr)]) :
              LET k == bd[Blocks(tr)][i] IN
              /\ k.rs = "failed" => k.out = k.n
              /\ rate[tr] = target_rate => (k.rs = "none" /\ k.out = k.n)
        /\ bd.thr # "count"
           => /\ bd.mic_frames = Appended(bd, "mic")
              /\ bd.sys_frames = Appended(bd, "sys")
        /\ (bd.thr = "write" /\ bd.sys_wav = "open")
           => ENABLED (ScWrite(b) /\ bundles'[b].thr = "count")

\* On a machine whose mic runs at another rate and whose output device runs
\* at the target rate: a mic block whose resampling failed and a system
\* block that was not resampled have been appended, and each counter has
\* grown by the delivered count.
C14_Witness ==
    \E b \in Bundles :
        LET bd == bundles[b] IN
        /\ rate["mic"] # target_rate
        /\ rate["sys"] = target_rate
        /\ Len(bd.mic_blocks) = 1
        /\ bd.mic_blocks[1].rs = "failed"
        /\ bd.mic_blocks[1].fate = "written"
        /\ bd.mic_frames = DEFAULT_BLOCKSIZE
        /\ Len(bd.sys_blocks) = 1
        /\ bd.sys_blocks[1].rs = "none"
        /\ bd.sys_blocks[1].fate = "written"
        /\ bd.sys_frames = DEFAULT_BLOCKSIZE

\* C15: within a track the blocks are appended in the order of their
\* delivery: the log of the writer lists delivery numbers in increasing
\* order, so it is a subsequence of the sequence of delivered blocks.
C15_AppendedInDeliveryOrder ==
    \A b \in Bundles : \A tr \in Tracks :
        LET log == bundles[b][Log(tr)] IN
        \A i, j \in 1..Len(log) : i < j => log[i] < log[j]

IsPrefix(s, t) == Len(s) <= Len(t) /\ SubSeq(t, 1, Len(s)) = s

\* C16: a track file is append-only: every step leaves the blocks that are
\* in <key>/mic.wav and <key>/system.wav in place, at the head of the file,
\* whatever sequence of start_recording and stop_recording it belongs to.
C16_TrackFileAppendOnly ==
    [][\A k \in Keys : \A tr \in Tracks : IsPrefix(files[k][tr], files'[k][tr])]_vars

\* The merge has returned, once or twice.
Returned == merger.phase \in {"merged", "remerged"}

\* A list of dicts is ascending by (t_start_ms, t_end_ms).
Ascending(list) ==
    \A i \in 1..(Len(list) - 1) :
        ~KeyLess(SortKey(list[i + 1]), SortKey(list[i]))

\* The number of segments given to the merge.
Given == Len(merger.given)

\* C17: for all lists mic and sys, in any order, the list _merge_and_filter
\* returns is ascending by (t_start_ms, t_end_ms), with the ends as the
\* collapses have left them.
C17_ReturnedListIsSorted ==
    Returned => Ascending(merger.ret)

\* C17 happens: the segments were given out of order, a collapse has moved
\* the end of a returned segment, and that segment is followed by another.
C17_Witness ==
    /\ merger.phase = "merged"
    /\ ~Ascending(merger.given)
    /\ \E i \in 1..(Len(merger.out) - 1) :
          merger.ret[i].t_end_ms > merger.given[merger.out[i]].t_end_ms

\* Two dicts have equal trimmed text and starts less than the window apart.
Repeats(d, e) ==
    /\ strip(d.text) = strip(e.text)
    /\ e.t_start_ms - d.t_start_ms < Window

\* C18: in the list _merge_and_filter returns, no two adjacent segments have
\* equal trimmed text and a start-time difference below the 500 ms window.
C18_NoAdjacentDuplicates ==
    Returned =>
        \A i \in 1..(Len(merger.ret) - 1) :
            ~Repeats(merger.ret[i], merger.ret[i + 1])

\* C18 happens: a segment was absorbed, and the returned list still has two
\* adjacent segments whose texts differ only in blanks, the window apart.
C18_Witness ==
    /\ merger.phase = "merged"
    /\ Len(merger.ret) < Given
    /\ \E i \in 1..(Len(merger.ret) - 1) :
          /\ strip(merger.ret[i].text) = strip(merger.ret[i + 1].text)
          /\ merger.ret[i].text # merger.ret[i + 1].text
          /\ merger.ret[i + 1].t_start_ms - merger.ret[i].t_start_ms = Window

\* C19: merging the list returned by merge(a, b) with the empty list returns
\* a list equal to it: same length, same fields, same order.
C19_MergeIsIdempotent ==
    merger.phase = "remerged" => merger.ret2 = merger.ret

\* C19 happens: the first merge absorbed a segment and returned several,
\* two of them with the same sort key, and the second merge has returned.
C19_Witness ==
    /\ merger.phase = "remerged"
    /\ Len(merger.ret) < Given
    /\ \E i \in 1..(Len(merger.ret) - 1) :
          SortKey(merger.ret[i]) = SortKey(merger.ret[i + 1])

\* The objects given to the merge, in the order of the sort of line 158.
SortedGiven == Sort(merger.given, merger.mic \o merger.sys)

\* The objects of the returned list.
Emitted == {merger.out[o] : o \in 1..Len(merger.out)}

\* Objects p and q are neighbours in sorted order, p first, and as given
\* they have equal trimmed text and starts less than the window apart.
AdjacentRepeat(p, q) ==
    /\ \E i \in 1..(Given - 1) : SortedGiven[i] = p /\ SortedGiven[i + 1] = q
    /\ Repeats(merger.given[p], merger.given[q])

\* The greatest end, as given, of the objects from sorted position i up to
\* the next emitted object.
RECURSIVE RunEnd(_)
RunEnd(i) ==
    IF i < Given /\ SortedGiven[i + 1] \notin Emitted
    THEN Max(merger.given[SortedGiven[i]].t_end_ms, RunEnd(i + 1))
    ELSE merger.given[SortedGiven[i]].t_end_ms

\* C20 as stated: two segments with equal trimmed text and starts less than
\* 500 ms apart that are adjacent in sorted order are collapsed into one
\* returned segment, whose start is the earlier start and whose end is the
\* maximum of the two ends, whichever track each came from.
C20_AdjacentPairCollapses ==
    merger.phase = "merged" =>
        \A p, q \in 1..Given :
            AdjacentRepeat(p, q) =>
                \E o \in 1..Len(merger.out) :
                    /\ Emitted \cap {p, q} \subseteq {merger.out[o]}
                    /\ merger.ret[o].t_start_ms = merger.given[p].t_start_ms
                    /\ merger.ret[o].t_end_ms =
                           Max(merger.given[p].t_end_ms, merger.given[q].t_end_ms)

\* C20, amended: when the earlier of two such segments is itself returned,
\* the later one is not returned, and the earlier one is returned with its
\* own start and with the greatest end of the segments absorbed into it,
\* which is the maximum of the two ends when the later one is the only one
\* absorbed; whichever track each came from.
C20_PairCollapsesIntoEmitted ==
    merger.phase = "merged" =>
        \A i \in 1..(Given - 1) :
            LET p == SortedGiven[i]
                q == SortedGiven[i + 1]
            IN  (AdjacentRepeat(p, q) /\ p \in Emitted) =>
                    /\ q \notin Emitted
                    /\ merger.heap[p].t_start_ms = merger.given[p].t_start_ms
                    /\ merger.heap[p].t_end_ms = RunEnd(i)
                    /\ merger.heap[p].t_end_ms >=
                           Max(merger.given[p].t_end_ms, merger.given[q].t_end_ms)
                    /\ (i + 1 = Given \/ SortedGiven[i + 2] \in Emitted) =>
                           merger.heap[p].t_end_ms =
                               Max(merger.given[p].t_end_ms, merger.given[q].t_end_ms)

\* C20 happens: a remote segment that starts later and ends earlier than a
\* microphone segment, with the same text but for a blank, was absorbed
\* into it.
C20_Witness ==
    /\ merger.phase = "merged"
    /\ \E p \in Emitted, q \in 1..Given :
          /\ AdjacentRepeat(p, q)
          /\ merger.given[p].speaker = "You"
          /\ merger.given[q].speaker = "Remote"
          /\ merger.given[p].text # merger.given[q].text
          /\ merger.given[p].t_start_ms < merger.given[q].t_start_ms
          /\ merger.given[p].t_end_ms > merger.given[q].t_end_ms

\* The place of object p in the sorted list.
Pos(p) == CHOOSE i \in 1..Given : SortedGiven[i] = p

\* The returned object that the object at sorted position i is part of:
\* itself when it was appended to dedup, else the one that absorbed it.
RECURSIVE Opener(_)
Opener(i) ==
    IF SortedGiven[i] \in Emitted \/ i = 1 THEN SortedGiven[i]
    ELSE Opener(i - 1)

\* Objects p and q, as given, are at least the window apart.
Apart(p, q) ==
    \/ merger.given[q].t_start_ms - merger.given[p].t_start_ms >= Window
    \/ merger.given[p].t_start_ms - merger.given[q].t_start_ms >= Window

TiesInGivenOrder(list) ==
    \A i, j \in 1..Len(list) :
        (/\ i < j
         /\ SortKey(merger.given[list[i]]) = SortKey(merger.given[list[j]])) =>
            list[i] < list[j]

\* C22: the sort of the merge is stable: segments with the same
\* (t_start_ms, t_end_ms) keep the order of the concatenation mic-then-system,
\* in the sorted list and so in the returned list.
C22_SortIsStable ==
    merger.phase = "merged" =>
        /\ TiesInGivenOrder(SortedGiven)
        /\ TiesInGivenOrder(merger.out)

\* C22 happens: a mic segment and two system segments have the same key,
\* neighbours differ in text, and all three are returned in the order of the
\* concatenation.
C22_Witness ==
    /\ merger.phase = "merged"
    /\ Len(merger.mic) = 1
    /\ Len(merger.out) = 3
    /\ \A p \in 2..3 : SortKey(merger.given[p]) = SortKey(merger.given[1])
    /\ merger.out = <<1, 2, 3>>

\* C23: the merge leaves its input as it was: across a call of
\* _merge_and_filter(mic, sys) the two lists keep their length and order,
\* and every segment of them keeps its t_start_ms, t_end_ms, text,
\* confidence and speaker.
C23_InputsUnchanged ==
    [][(merger.phase = "input" /\ merger'.phase = "merged") =>
           /\ merger'.mic = merger.mic
           /\ merger'.sys = merger.sys
           /\ \A p \in 1..Len(merger.heap) : merger'.heap[p] = merger.heap[p]]_vars

\* C24: the merge rejects malformed input: when a segment lacks t_start_ms,
\* t_end_ms or text, the call fails and returns no list, so a call that has
\* returned a list was given well-formed segments only.
C24_MalformedInputRejected ==
    Returned => \A p \in 1..Given : WellFormed(merger.given[p])

\* The entries of a list of the answer that stand for device index idx.
EntriesOf(list, idx) == {e \in 1..Len(list) : list[e].id = str(idx)}

HasInput(dev) == dev.max_input_channels > 0

HasOutput(dev) == dev.max_output_channels > 0

\* One list of the answer is right for the n devices reported, of which
\* those with an index in having have a channel of the list's kind: the
\* device with index idx is in it, once, iff idx is in having, and its entry
\* is the default iff idx is the default index of that kind.
ListedRight(list, n, having, default) ==
    /\ \A idx \in 0..(n - 1) :
          /\ idx \in having => Cardinality(EntriesOf(list, idx)) = 1
          /\ idx \notin having => EntriesOf(list, idx) = {}
          /\ \A e \in EntriesOf(list, idx) :
                list[e].is_default <=> (idx = default)
    /\ \A e \in 1..Len(list) :
          \E idx \in 0..(n - 1) : e \in EntriesOf(list, idx)
    /\ Cardinality({e \in 1..Len(list) : list[e].is_default}) <= 1
    /\ default \notin 0..(n - 1) =>
          \A e \in 1..Len(list) : ~list[e].is_default

\* C25: list_devices answers whatever the audio library does; without the
\* library, or when a call into it raises, both lists are empty; otherwise
\* each device is in inputs iff it has an input channel and in outputs iff
\* it has an output channel, and is_default is set exactly on the entry
\* whose index is the default input (output) index.
C25_ListDevicesTotalAndExact ==
    /\ listing.phase = "called" => ENABLED ListDevices
    /\ listing.phase = "answered" =>
          IF ~sd \/ listing.q.outcome # "ok"
          THEN listing.res = NoDevices
          ELSE LET devices == listing.q.devices
                   n == Len(devices)
               IN  /\ ListedRight(listing.res.inputs, n,
                                  {idx \in 0..(n - 1) : HasInput(devices[idx + 1])},
                                  listing.q.default[1])
                   /\ ListedRight(listing.res.outputs, n,
                                  {idx \in 0..(n - 1) : HasOutput(devices[idx + 1])},
                                  listing.q.default[2])

\* C25 happens: of three devices the first has no input channel and is the
\* default input index, so no input is marked; the second is an input and
\* the third, an output, is marked default.
C25_Witness ==
    /\ listing.phase = "answered"
    /\ sd
    /\ listing.q.outcome = "ok"
    /\ Len(listing.q.devices) = 3
    /\ listing.q.default = <<0, 2>>
    /\ Len(listing.res.inputs) = 1
    /\ listing.res.inputs[1].id = <<"1">>
    /\ ~listing.res.inputs[1].is_default
    /\ \E e \in 1..Len(listing.res.outputs) :
          listing.res.outputs[e].id = <<"2">> /\ listing.res.outputs[e].is_default

\* C26: a segment is compared with the previous emitted segment, whose start
\* no collapse changes: the segment at sorted place i is absorbed iff its
\* trimmed text is that of the segment last emitted before it and it starts
\* less than 500 ms after that segment's start as given; otherwise it is
\* emitted, however close it is to the segment absorbed just before it.
C26_ComparedWithLastEmitted ==
    merger.phase = "merged" =>
        /\ Given > 0 => SortedGiven[1] \in Emitted
        /\ \A i \in 2..Given :
              LET s == SortedGiven[i]
                  e == Opener(i - 1)
              IN  /\ merger.heap[e].t_start_ms = merger.given[e].t_start_ms
                  /\ s \notin Emitted <=> Repeats(merger.given[e], merger.given[s])

\* C26 happens: three segments of one trimmed text start at 0, 400 and 500;
\* the second was absorbed, and the third, 100 ms after the second, was
\* emitted.
C26_Witness ==
    /\ merger.phase = "merged"
    /\ Given = 3
    /\ \A p \in 2..3 : strip(merger.given[p].text) = strip(merger.given[1].text)
    /\ merger.given[SortedGiven[2]].t_start_ms = 400
    /\ merger.given[SortedGiven[3]].t_start_ms = 500
    /\ Emitted = {SortedGiven[1], SortedGiven[3]}

\* The lookups of _sc_loop come in the order of lines 228-243: the monitor
\* is found once, by name from the first lookup or by the default speaker
\* from the second, and the second lookup is reached only from a first one
\* that found nothing.  (A bundle nothing refers to any more is left out.)
LookupOrder ==
    \A b \in Bundles :
        bundles'[b] # Collected =>
        /\ bundles'[b].monitor # bundles[b].monitor =>
              /\ bundles[b].monitor = "unresolved"
              /\ bundles'[b].monitor = "name" => bundles[b].thr = "resolve"
              /\ bundles'[b].monitor \in {"default", "none"} =>
                     bundles[b].thr = "resolve2"
        /\ (bundles'[b].thr = "resolve2" /\ bundles[b].thr # "resolve2") =>
              /\ bundles[b].thr = "resolve"
              /\ bundles'[b].monitor = "unresolved"

\* The fallback loop of bundle b found no monitor and has ended with no
\* block in hand.
EndedWithoutMonitor(b) ==
    /\ bundles[b].monitor = "none"
    /\ bundles[b].thr = "exited"
    /\ bundles[b].held = 0

\* C27: the fallback loop looks its monitor up by the output device's name
\* first and by the default speaker only when that finds nothing; with no
\* monitor from either it ends without pulling or writing a block, the
\* start_recording that fell back still returns a sys_path, and the
\* stop_recording after it reports sys_frames = 0, a sys_path and the
\* backend "soundcard".
C27_NoMonitorNoFrames ==
    /\ [][LookupOrder]_vars
    /\ [](\A b \in Bundles :
             bundles[b].monitor = "none" => EndedWithoutMonitor(b))
    /\ [](\A t \in Threads :
             (At(t, "start", "returned") /\ calls[t].b # 0
                  /\ bundles[calls[t].b].sys_thread)
             => calls[t].res.sys_path)
    /\ [](\A t \in Threads :
             (At(t, "stop", "returned") /\ calls[t].b # 0 /\ calls[t].afterStart
                  /\ bundles[calls[t].b].monitor = "none")
             => /\ calls[t].res.sys_frames = 0
                /\ calls[t].res.sys_path
                /\ calls[t].res.sys_backend = "soundcard")

\* Something of bundle b still captures: a started stream, a fallback
\* thread whose stop flag is not set, or an open writer.
Capturing(b) ==
    \/ bundles[b].micDev = "active"
    \/ bundles[b].sysDev = "active"
    \/ Running(b) /\ ~bundles[b].flag
    \/ bundles[b].mic_wav = "open"
    \/ bundles[b].sys_wav = "open"

\* C28: in every interleaving of start_recording(key) and stop_recording(key)
\* on different threads, once the stop that took the bundle out of the table
\* has returned and the start that registered it has ended, no stream, no
\* fallback thread and no open writer is left on the bundle.
C28_NoCaptureLeftAfterStop ==
    \A t, u \in Threads :
        (/\ At(t, "stop", "returned")
         /\ calls[t].b # 0
         /\ calls[u].op = "start"
         /\ calls[u].b = calls[t].b
         /\ calls[u].pc \in {"returned", "raised"})
        => ~Capturing(calls[t].b)

\* The worker threads that have not ended.
Alive == {w \in Workers : jobs.workers[w] # "ended"}

\* C29: for one meeting id at most one transcription worker runs at a time,
\* under any interleaving of start_transcription_job calls: a call that
\* finds the job "running" starts no worker, and no two calls both start
\* one while the first worker runs, so no two workers are between their
\* delete and their insert of the segments.
C29_AtMostOneWorker ==
    /\ Cardinality(Alive) <= 1
    /\ \A t \in Threads :
          (jobs.phase = "serving" /\ jobs.call[t].found = "running")
          => ~jobs.call[t].started

\* The least start and the greatest end over a non-empty list of dicts.
MinStart(list) ==
    CHOOSE m \in {list[i].t_start_ms : i \in 1..Len(list)} :
        \A i \in 1..Len(list) : m <= list[i].t_start_ms

MaxEnd(list) ==
    CHOOSE m \in {list[i].t_end_ms : i \in 1..Len(list)} :
        \A i \in 1..Len(list) : m >= list[i].t_end_ms

\* The segments given to the merge, mic first: mic_segments + sys_segments.
Concatenated == Dicts(merger.given, merger.mic \o merger.sys)

\* C30: the merge neither invents nor loses time coverage: every returned
\* segment has the t_start_ms, text, speaker and confidence of the input
\* segment that opened its group (the earliest of the group in sorted order)
\* and an end not below that segment's; the returned list is no longer than
\* the two inputs together; and the least start and the greatest end over
\* the returned list are those over the concatenated input.
C30_CoverageKept ==
    merger.phase = "merged" =>
        /\ \A o \in 1..Len(merger.out) :
              LET p == merger.out[o]
                  g == merger.given[p]
                  r == merger.ret[o]
              IN  /\ p = Opener(Pos(p))
                  /\ r.t_start_ms = g.t_start_ms
                  /\ r.text = g.text
                  /\ r.speaker = g.speaker
                  /\ r.confidence = g.confidence
                  /\ r.t_end_ms >= g.t_end_ms
                  /\ DOMAIN r = DOMAIN g
        /\ Len(merger.ret) <= Len(merger.mic) + Len(merger.sys)
        /\ Given > 0 =>
              /\ merger.ret # <<>>
              /\ MinStart(merger.ret) = MinStart(Concatenated)
              /\ MaxEnd(merger.ret) = MaxEnd(Concatenated)

\* C30 happens: of three segments given, one was absorbed; it alone had the
\* greatest end of the input and another speaker, confidence and untrimmed
\* text than the segment that absorbed it, whose end has grown.
C30_Witness ==
    /\ merger.phase = "merged"
    /\ Given = 3
    /\ Len(merger.ret) = 2
    /\ \E s \in 1..Given : \E o \in 1..Len(merger.out) :
          LET p == merger.out[o] IN
          /\ s \notin Emitted
          /\ Opener(Pos(s)) = p
          /\ \A q \in (1..Given) \ {s} :
                merger.given[q].t_end_ms < merger.given[s].t_end_ms
          /\ merger.given[s].speaker # merger.given[p].speaker
          /\ merger.given[s].confidence # merger.given[p].confidence
          /\ merger.given[s].text # merger.given[p].text
          /\ merger.ret[o].t_end_ms > merger.given[p].t_end_ms

====
